---- MODULE Spec2Model ----
(***************************************************************************)
(* A model of the ketty plugin of protoc-gen-go (src/ketty/ketty.go): the  *)
(* pass that maps the services and messages of one .proto file to Go       *)
(* source text.  The output is kept as the sequence of lines handed to     *)
(* g.P, the calls between the generator's functions as a log.              *)
(***************************************************************************)
EXTENDS Integers, Sequences, FiniteSets, TLC

VARIABLES
    file,               \* the generator.FileDescriptor handed to Generate
    pc,                 \* where the pass stands
    out,                \* the lines Generate has printed with g.P
    imports,            \* the lines GenerateImports has printed with g.P
    calls,              \* log of the calls made inside Generate, in order
    si,                 \* range index over file.Service (1-based)
    mi,                 \* range index over service.Method (1-based)
    methodIndex,        \* generateService's local methodIndex
    streamIndex,        \* generateService's local streamIndex
    msgi,               \* range index over file.MessageType (1-based)
    kettyPkg,           \* package-level alias of the ketty import
    contextPkg,         \* package-level alias of the context import
    pkgNamesInUse,      \* the generator's registry of package names in use
    reservedClientName, \* package-level map of reserved client names (its keys)
    pass,               \* number of the running pass over the file
    inits,              \* how often Init has run in this process
    prevOut,            \* out of the previous pass
    prevInits,          \* inits when the previous pass ended
    prevImports         \* imports of the previous pass

vars == <<file, pc, out, imports, calls, si, mi, methodIndex, streamIndex, msgi,
          kettyPkg, contextPkg, pkgNamesInUse, reservedClientName, pass, inits,
          prevOut, prevInits, prevImports>>

---------------------------------------------------------------------------
(* Bounds of the model. *)

MaxServices == 2
MaxMethods == 3
MaxMessages == 1
MaxPasses == 2

---------------------------------------------------------------------------
(* Text helpers. *)

Lower == "abcdefghijklmnopqrstuvwxyz"
Upper == "ABCDEFGHIJKLMNOPQRSTUVWXYZ"
Digits == "0123456789"

CharAt(s, i) == SubSeq(s, i, i)

LowerLetters == { CharAt(Lower, k) : k \in 1..Len(Lower) }
DigitChars == { CharAt(Digits, k) : k \in 1..Len(Digits) }

\* The upper-case letter of each lower-case letter (c ^= ' ' in CamelCase).
UpperOf ==
    [c \in LowerLetters |->
        CharAt(Upper, CHOOSE k \in 1..Len(Lower) : CharAt(Lower, k) = c)]

isASCIILower(c) == c \in LowerLetters

isASCIIDigit(c) == c \in DigitChars

ToUpperChar(c) == IF isASCIILower(c) THEN UpperOf[c] ELSE c

\* Index of the last character of the run of lower-case letters after position i.
RECURSIVE LowerRunEnd(_, _)
LowerRunEnd(s, i) ==
    IF i + 1 <= Len(s) /\ isASCIILower(CharAt(s, i + 1))
    THEN LowerRunEnd(s, i + 1)
    ELSE i

RECURSIVE CamelFrom(_, _, _)
CamelFrom(s, i, t) ==
    IF i > Len(s) THEN t
    ELSE LET c == CharAt(s, i) IN
         IF c = "_" /\ i + 1 <= Len(s) /\ isASCIILower(CharAt(s, i + 1))
         THEN CamelFrom(s, i + 1, t)
         ELSE IF isASCIIDigit(c)
         THEN CamelFrom(s, i + 1, t \o c)
         ELSE LET j == LowerRunEnd(s, i) IN
              CamelFrom(s, j + 1, t \o ToUpperChar(c) \o SubSeq(s, i + 1, j))

\* generator.CamelCase: "_" followed by a lower-case letter is dropped and the
\* letter capitalised; a leading "_" becomes "X".
CamelCase(s) ==
    IF s = "" THEN ""
    ELSE IF CharAt(s, 1) = "_" THEN CamelFrom(s, 2, "X")
    ELSE CamelFrom(s, 1, "")

\* %d of fmt.Sprintf.
RECURSIVE Itoa(_)
Itoa(n) ==
    IF n < 10 THEN CharAt(Digits, n + 1)
    ELSE Itoa(n \div 10) \o CharAt(Digits, (n % 10) + 1)

\* Position of the last "." of s, 0 when there is none.
RECURSIVE LastDot(_, _)
LastDot(s, i) ==
    IF i = 0 THEN 0
    ELSE IF CharAt(s, i) = "." THEN i
    ELSE LastDot(s, i - 1)

\* g.typeName: the Go name of a type of the file's own package, given the
\* fully-qualified proto name (".pkg.Name").
typeName(str) == CamelCase(SubSeq(str, LastDot(str, Len(str)) + 1, Len(str)))

\* generator.RegisterUniquePackageName: the first of pkg, pkg1, pkg2, ... that
\* is not in use.
RECURSIVE UniqueFrom(_, _, _)
UniqueFrom(orig, i, inUse) ==
    IF (orig \o Itoa(i)) \in inUse THEN UniqueFrom(orig, i + 1, inUse)
    ELSE orig \o Itoa(i)

RegisterUniquePackageName(pkg, inUse) ==
    IF pkg \in inUse THEN UniqueFrom(pkg, 1, inUse) ELSE pkg

---------------------------------------------------------------------------
(* The descriptor trees handed to the plugin. *)

MethodNames == <<"Say", "say_hi", "_watch", "get_2x", "PUT">>
ServiceNames == <<"Echo", "chat_room", "_aux", "Relay">>
MessageNames == <<"EchoRequest", "EchoResponse", "Ping">>

\* <<clientStreaming, serverStreaming>>
Flags == BOOLEAN \X BOOLEAN

Method(j, fl) ==
    [name |-> MethodNames[j],
     inputType |-> ".demo.EchoRequest",
     outputType |-> ".demo.echo_response",
     clientStreaming |-> fl[1],
     serverStreaming |-> fl[2]]

RECURSIVE SumTo(_, _)
SumTo(c, k) == IF k = 0 THEN 0 ELSE SumTo(c, k - 1) + c[k]

\* The services with c[k] methods in service k and the flags f of all methods.
ServicesOf(c, f) ==
    [k \in 1..Len(c) |->
        [name |-> ServiceNames[k],
         methods |-> [j \in 1..c[k] |-> Method(j, f[SumTo(c, k - 1) + j])]]]

\* Every list of at most maxS services holding at most maxM methods in all.
ServiceLists(maxS, maxM) ==
    UNION { UNION { { ServicesOf(c, f) : f \in [1..SumTo(c, s) -> Flags] } :
                    c \in { d \in [1..s -> 0..maxM] : SumTo(d, s) <= maxM } } :
            s \in 0..maxS }

\* What proto.GetExtension finds for one extension of a message's options:
\* nothing ("unset"), a value it refuses ("conflict"), or the value it returns
\* with a nil error, named by its dynamic type.
Stored(kind, b, s) == [kind |-> kind, b |-> b, s |-> s]
Unset == Stored("unset", FALSE, "")

UseHttpStored ==
    {Unset, Stored("conflict", FALSE, ""), Stored("*bool", TRUE, ""),
     Stored("*bool", FALSE, ""), Stored("nil *bool", FALSE, ""),
     Stored("[]byte", FALSE, "")}

TransportStored ==
    {Unset, Stored("*string", FALSE, "http"), Stored("*string", FALSE, ""),
     Stored("nil *string", FALSE, ""), Stored("*bool", TRUE, "")}

MarshalStored ==
    {Unset, Stored("*string", FALSE, "json"), Stored("[]byte", FALSE, "")}

Options(a, b, c) ==
    [present |-> TRUE, useKettyHttpExtend |-> a, transport |-> b, marshal |-> c]

\* message.Options == nil
NoOptions ==
    [present |-> FALSE, useKettyHttpExtend |-> Unset, transport |-> Unset,
     marshal |-> Unset]

OptionSets ==
    {NoOptions} \cup
    { Options(a, b, c) : a \in UseHttpStored, b \in TransportStored,
                         c \in MarshalStored }

Message(k, o) == [name |-> MessageNames[k], options |-> o]

MessageLists(maxN) ==
    UNION { { [k \in 1..n |-> Message(k, o[k])] : o \in [1..n -> OptionSets] } :
            n \in 0..maxN }

SmallServices ==
    { <<>>,
      ServicesOf(<<1>>, <<(<<FALSE, FALSE>>)>>),
      ServicesOf(<<2>>, <<(<<FALSE, FALSE>>), (<<TRUE, FALSE>>)>>) }

SmallMessages ==
    { <<>>,
      <<Message(1, Options(Unset, Stored("*string", FALSE, "http"), Unset)),
        Message(2, NoOptions)>>,
      <<Message(1, Options(Stored("*bool", TRUE, ""),
                           Stored("*string", FALSE, "http"),
                           Stored("*string", FALSE, "json")))>>,
      <<Message(1, Options(Unset, Stored("*bool", TRUE, ""), Unset))>> }

\* Two of them: one that is printed and one that is skipped; one whose
\* transport is stored under another type.
FewMessages ==
    { <<Message(1, Options(Unset, Stored("*string", FALSE, "http"), Unset)),
        Message(2, NoOptions)>>,
      <<Message(1, Options(Unset, Stored("*bool", TRUE, ""), Unset))>> }

File(services, messages) ==
    [package |-> "demo", services |-> services, messages |-> messages]

\* g.gen.ImportPrefix
ImportPrefix == ""

---------------------------------------------------------------------------
(* The functions of ketty.go. *)

kettyPkgPath == "github.com/yyzybb537/ketty"

\* path.Join and strconv.Quote, as GenerateImports uses them.
pathJoin(a, b) == IF a = "" THEN b ELSE a \o "/" \o b
Quote(s) == "\"" \o s \o "\""

\* proto.GetExtension(message.Options, E_x): the value found and the error.
GetExtension(options, ext) ==
    LET stored == options[ext] IN
    [err |-> stored.kind \in {"unset", "conflict"}, value |-> stored]

\* The type assertion x.(T) of a value returned with a nil error: it panics
\* unless the dynamic type is T (a nil pointer of type T passes).
AssertionPanics(r, T) == ~r.err /\ r.value.kind \notin {T, "nil " \o T}

\* The value is a non-nil pointer of type T and is dereferenced.
Deref(r, T) == ~r.err /\ r.value.kind = T

getKettyOptions(message) ==
    LET iisUseKettyHttpExtend == GetExtension(message.options, "useKettyHttpExtend")
        iTransport == GetExtension(message.options, "transport")
        iMarshal == GetExtension(message.options, "marshal")
    IN  [panic |-> \/ AssertionPanics(iisUseKettyHttpExtend, "*bool")
                   \/ AssertionPanics(iTransport, "*string")
                   \/ AssertionPanics(iMarshal, "*string"),
         opts |->
            [isUseKettyHttpExtend |->
                IF Deref(iisUseKettyHttpExtend, "*bool")
                THEN iisUseKettyHttpExtend.value.b ELSE FALSE,
             transport |->
                IF Deref(iTransport, "*string") THEN iTransport.value.s ELSE "",
             marshal |->
                IF Deref(iMarshal, "*string") THEN iMarshal.value.s ELSE ""]]

\* generateOptionMethods printing the transport accessor before the marshal one.
generateOptionMethodsTransportFirst(message, opts) ==
    (IF opts.isUseKettyHttpExtend
     THEN <<"func (*" \o message.name \o ") KettyHttpExtendMessage() {}", "">>
     ELSE <<>>)
    \o
    (IF opts.transport # ""
     THEN <<"func (*" \o message.name \o ") KettyTransport() string {",
            "return \"" \o opts.transport \o "\"",
            "}", "">>
     ELSE <<>>)
    \o
    (IF opts.marshal # ""
     THEN <<"func (*" \o message.name \o ") KettyMarshal() string {",
            "return \"" \o opts.marshal \o "\"",
            "}", "">>
     ELSE <<>>)

generateOptionMethods(message, opts) ==
    (IF opts.isUseKettyHttpExtend
     THEN <<"func (*" \o message.name \o ") KettyHttpExtendMessage() {}", "">>
     ELSE <<>>)
    \o
    (IF opts.marshal # ""
     THEN <<"func (*" \o message.name \o ") KettyMarshal() string {",
            "return \"" \o opts.marshal \o "\"",
            "}", "">>
     ELSE <<>>)
    \o
    (IF opts.transport # ""
     THEN <<"func (*" \o message.name \o ") KettyTransport() string {",
            "return \"" \o opts.transport \o "\"",
            "}", "">>
     ELSE <<>>)

\* The lines Generate prints before the services.
GenerateHeader ==
    <<"// Reference imports to suppress errors if they are not otherwise used.",
      "var _ " \o kettyPkg \o ".Dummy",
      "",
      "// This is a compile-time assertion to ensure that this generated file",
      "// is compatible with the ketty package it is being compiled against.",
      "">>

GenerateImportsLines ==
    <<"import (",
      kettyPkg \o " " \o Quote(pathJoin(ImportPrefix, kettyPkgPath)),
      ")",
      "">>

\* The lines generateService prints before its loop over the methods.
generateServiceLines(servName) ==
    LET handleT == servName \o "HandleT" IN
    <<"type " \o handleT \o " struct {",
      "desc *grpc.ServiceDesc",
      "}",
      "",
      "func (h *" \o handleT \o ") Implement() interface{} {",
      "return h.desc",
      "}",
      "",
      "func (h *" \o handleT \o ") ServiceName() string {",
      "return h.desc.ServiceName",
      "}",
      "",
      "var " \o servName \o "Handle = &" \o handleT \o "{ desc : &_" \o servName
          \o "_serviceDesc }",
      "",
      "type Ketty" \o servName \o "Client struct {",
      "client " \o kettyPkg \o ".Client",
      "}",
      "",
      "func NewKetty" \o servName \o "Client (client " \o kettyPkg \o ".Client) "
          \o "*Ketty" \o servName \o "Client {",
      "return &Ketty" \o servName \o "Client{client}",
      "}",
      "">>

\* IsUnary looking at one of the two flags only.
IsUnaryServerFlagOnly(method) == ~method.serverStreaming

\* The branch of generateService's loop: a unary method or a streaming one.
IsUnary(method) == ~method.serverStreaming /\ ~method.clientStreaming

descExprOf(serviceDescVar, method, mIdx, sIdx) ==
    IF IsUnary(method)
    THEN "&" \o serviceDescVar \o ".Methods[" \o Itoa(mIdx) \o "]"
    ELSE "&" \o serviceDescVar \o ".Streams[" \o Itoa(sIdx) \o "]"

\* clientMethodName looking up the name as declared, not the camel-cased one.
clientMethodNameRawLookup(origMethName) ==
    LET methName == CamelCase(origMethName) IN
    IF origMethName \in reservedClientName THEN methName \o "_" ELSE methName

\* The method name of generateClientSignature.
clientMethodName(origMethName) ==
    LET methName == CamelCase(origMethName) IN
    IF methName \in reservedClientName THEN methName \o "_" ELSE methName

\* generateClientSignature dropping the request on the server-streaming flag.
generateClientSignatureServerFlag(servName, method) ==
    LET origMethName == method.name
        methName == clientMethodName(origMethName)
        reqArg == IF method.serverStreaming THEN ""
                  ELSE ", in *" \o typeName(method.inputType)
        respName == IF method.serverStreaming \/ method.clientStreaming
                    THEN servName \o "_" \o CamelCase(origMethName) \o "Client"
                    ELSE "*" \o typeName(method.outputType)
    IN  methName \o "(ctx " \o contextPkg \o ".Context" \o reqArg \o ") ("
            \o respName \o ", error)"

generateClientSignature(servName, method) ==
    LET origMethName == method.name
        methName == clientMethodName(origMethName)
        reqArg == IF method.clientStreaming THEN ""
                  ELSE ", in *" \o typeName(method.inputType)
        respName == IF method.serverStreaming \/ method.clientStreaming
                    THEN servName \o "_" \o CamelCase(origMethName) \o "Client"
                    ELSE "*" \o typeName(method.outputType)
    IN  methName \o "(ctx " \o contextPkg \o ".Context" \o reqArg \o ") ("
            \o respName \o ", error)"

\* generateClientMethod passing the name as declared for the key.
generateClientMethodRawKey(servName, method) ==
    LET methName == method.name
        outType == typeName(method.outputType)
    IN  <<"func (this *Ketty" \o servName \o "Client) "
              \o generateClientSignature(servName, method) \o "{",
          "out := new(" \o outType \o ")",
          "err := " \o "this.client.Invoke(ctx, " \o servName \o "Handle, \""
              \o methName \o "\", in, out)",
          "if err != nil { return nil, err }",
          "return out, nil",
          "}",
          "">>

generateClientMethod(servName, method) ==
    LET methName == CamelCase(method.name)
        outType == typeName(method.outputType)
    IN  <<"func (this *Ketty" \o servName \o "Client) "
              \o generateClientSignature(servName, method) \o "{",
          "out := new(" \o outType \o ")",
          "err := " \o "this.client.Invoke(ctx, " \o servName \o "Handle, \""
              \o methName \o "\", in, out)",
          "if err != nil { return nil, err }",
          "return out, nil",
          "}",
          "">>

---------------------------------------------------------------------------
(* The pass: the host calls Init once, then Generate and GenerateImports   *)
(* for the file.                                                           *)

InitOf(services, messages, reserved) ==
    /\ file \in { File(s, m) : s \in services, m \in messages }
    /\ reservedClientName \in reserved
    /\ pc = "new"
    /\ out = <<>>
    /\ imports = <<>>
    /\ calls = <<>>
    /\ si = 0
    /\ mi = 0
    /\ methodIndex = 0
    /\ streamIndex = 0
    /\ msgi = 0
    /\ kettyPkg = ""
    /\ contextPkg = ""
    /\ pkgNamesInUse = {file.package}
    /\ pass = 1
    /\ inits = 0
    /\ prevOut = <<>>
    /\ prevInits = 0
    /\ prevImports = <<>>

\* func (g *ketty) Init
KettyInit ==
    /\ pc = "new"
    /\ contextPkg' = "context"
    /\ kettyPkg' = RegisterUniquePackageName("ketty", pkgNamesInUse)
    /\ pkgNamesInUse' = pkgNamesInUse \cup {kettyPkg'}
    /\ inits' = inits + 1
    /\ pc' = "ready"
    /\ UNCHANGED <<file, out, imports, calls, si, mi, methodIndex, streamIndex,
                   msgi, reservedClientName, pass, prevOut, prevInits, prevImports>>

\* Generate registering the alias itself, on every call.
GenerateRegistersAlias ==
    /\ pc = "ready"
    /\ kettyPkg' = RegisterUniquePackageName("ketty", pkgNamesInUse)
    /\ pkgNamesInUse' = pkgNamesInUse \cup {kettyPkg'}
    /\ IF Len(file.services) = 0
       THEN /\ pc' = "imports"
            /\ UNCHANGED <<out, si>>
       ELSE /\ out' = out \o
                  <<"// Reference imports to suppress errors if they are not otherwise used.",
                    "var _ " \o kettyPkg' \o ".Dummy",
                    "",
                    "// This is a compile-time assertion to ensure that this generated file",
                    "// is compatible with the ketty package it is being compiled against.",
                    "">>
            /\ si' = 1
            /\ pc' = "services"
    /\ UNCHANGED <<file, imports, calls, mi, methodIndex, streamIndex, msgi,
                   contextPkg, reservedClientName, pass, inits, prevOut,
                   prevInits, prevImports>>

\* Generate, up to its loop over the services.
Generate ==
    /\ pc = "ready"
    /\ IF Len(file.services) = 0
       THEN /\ pc' = "imports"
            /\ UNCHANGED <<out, si>>
       ELSE /\ out' = out \o GenerateHeader
            /\ si' = 1
            /\ pc' = "services"
    /\ UNCHANGED <<file, imports, calls, mi, methodIndex, streamIndex, msgi,
                   kettyPkg, contextPkg, pkgNamesInUse, reservedClientName,
                   pass, inits, prevOut, prevInits, prevImports>>

\* generateService with counters that outlive the call.
generateServiceKeepsCounters ==
    /\ pc = "services"
    /\ si <= Len(file.services)
    /\ LET service == file.services[si]
           servName == CamelCase(service.name)
       IN  /\ out' = out \o generateServiceLines(servName)
           /\ calls' = Append(calls,
                  [op |-> "generateService", index |-> si - 1,
                   service |-> service.name,
                   from |-> Len(out) + 1, to |-> Len(out')])
    /\ mi' = 1
    /\ pc' = "methods"
    /\ UNCHANGED <<file, imports, si, msgi, methodIndex, streamIndex, kettyPkg,
                   contextPkg, pkgNamesInUse, reservedClientName, pass, inits,
                   prevOut, prevInits, prevImports>>

\* generateService, up to its loop over the methods.
generateService ==
    /\ pc = "services"
    /\ si <= Len(file.services)
    /\ LET service == file.services[si]
           servName == CamelCase(service.name)
       IN  /\ out' = out \o generateServiceLines(servName)
           /\ calls' = Append(calls,
                  [op |-> "generateService", index |-> si - 1,
                   service |-> service.name,
                   from |-> Len(out) + 1, to |-> Len(out')])
    /\ methodIndex' = 0
    /\ streamIndex' = 0
    /\ mi' = 1
    /\ pc' = "methods"
    /\ UNCHANGED <<file, imports, si, msgi, kettyPkg, contextPkg, pkgNamesInUse,
                   reservedClientName, pass, inits, prevOut, prevInits, prevImports>>

\* One turn of generateService's loop over the methods.
generateServiceMethod ==
    /\ pc = "methods"
    /\ mi <= Len(file.services[si].methods)
    /\ LET service == file.services[si]
           origServName == service.name
           fullServName == IF file.package # ""
                           THEN file.package \o "." \o origServName
                           ELSE origServName
           servName == CamelCase(origServName)
           serviceDescVar == "_" \o servName \o "_serviceDesc"
           method == service.methods[mi]
           descExpr == descExprOf(serviceDescVar, method, methodIndex, streamIndex)
       IN  /\ methodIndex' = IF IsUnary(method) THEN methodIndex + 1
                             ELSE methodIndex
           /\ streamIndex' = IF IsUnary(method) THEN streamIndex
                             ELSE streamIndex + 1
           /\ out' = out \o generateClientMethod(servName, method)
           /\ calls' = Append(calls,
                  [op |-> "generateClientMethod", servName |-> servName,
                   fullServName |-> fullServName,
                   serviceDescVar |-> serviceDescVar, method |-> method,
                   descExpr |-> descExpr, service |-> si, position |-> mi,
                   from |-> Len(out) + 1, to |-> Len(out')])
    /\ mi' = mi + 1
    /\ UNCHANGED <<file, pc, imports, si, msgi, kettyPkg, contextPkg,
                   pkgNamesInUse, reservedClientName, pass, inits, prevOut,
                   prevInits, prevImports>>

\* generateService returns: the next service of Generate's loop.
generateServiceReturn ==
    /\ pc = "methods"
    /\ mi > Len(file.services[si].methods)
    /\ si' = si + 1
    /\ pc' = "services"
    /\ UNCHANGED <<file, out, imports, calls, mi, methodIndex, streamIndex, msgi,
                   kettyPkg, contextPkg, pkgNamesInUse, reservedClientName,
                   pass, inits, prevOut, prevInits, prevImports>>

\* Generate's loop over the services ends: on to the messages.
ServicesDone ==
    /\ pc = "services"
    /\ si > Len(file.services)
    /\ msgi' = 1
    /\ pc' = "messages"
    /\ UNCHANGED <<file, out, imports, calls, si, mi, methodIndex, streamIndex,
                   kettyPkg, contextPkg, pkgNamesInUse, reservedClientName,
                   pass, inits, prevOut, prevInits, prevImports>>

\* A message without options: continue.
SkipMessage ==
    /\ pc = "messages"
    /\ msgi <= Len(file.messages)
    /\ ~file.messages[msgi].options.present
    /\ msgi' = msgi + 1
    /\ UNCHANGED <<file, pc, out, imports, calls, si, mi, methodIndex,
                   streamIndex, kettyPkg, contextPkg, pkgNamesInUse,
                   reservedClientName, pass, inits, prevOut, prevInits, prevImports>>

\* getKettyOptions panics in a type assertion: the pass is aborted.
OptionsPanic ==
    /\ pc = "messages"
    /\ msgi <= Len(file.messages)
    /\ file.messages[msgi].options.present
    /\ getKettyOptions(file.messages[msgi]).panic
    /\ pc' = "panic"
    /\ UNCHANGED <<file, out, imports, calls, si, mi, methodIndex, streamIndex,
                   msgi, kettyPkg, contextPkg, pkgNamesInUse, reservedClientName,
                   pass, inits, prevOut, prevInits, prevImports>>

\* getKettyOptions returns and generateOptionMethods prints.
OptionMethods ==
    /\ pc = "messages"
    /\ msgi <= Len(file.messages)
    /\ file.messages[msgi].options.present
    /\ LET message == file.messages[msgi]
           res == getKettyOptions(message)
       IN  /\ ~res.panic
           /\ out' = out \o generateOptionMethods(message, res.opts)
           /\ calls' = Append(calls,
                  [op |-> "generateOptionMethods", message |-> message.name,
                   position |-> msgi, opts |-> res.opts,
                   from |-> Len(out) + 1, to |-> Len(out')])
    /\ msgi' = msgi + 1
    /\ UNCHANGED <<file, pc, imports, si, mi, methodIndex, streamIndex, kettyPkg,
                   contextPkg, pkgNamesInUse, reservedClientName, pass, inits,
                   prevOut, prevInits, prevImports>>

\* Generate returns.
GenerateReturn ==
    /\ pc = "messages"
    /\ msgi > Len(file.messages)
    /\ pc' = "imports"
    /\ UNCHANGED <<file, out, imports, calls, si, mi, methodIndex, streamIndex,
                   msgi, kettyPkg, contextPkg, pkgNamesInUse, reservedClientName,
                   pass, inits, prevOut, prevInits, prevImports>>

GenerateImports ==
    /\ pc = "imports"
    /\ imports' = IF Len(file.services) = 0 THEN imports
                  ELSE imports \o GenerateImportsLines
    /\ pc' = "done"
    /\ UNCHANGED <<file, out, calls, si, mi, methodIndex, streamIndex, msgi,
                   kettyPkg, contextPkg, pkgNamesInUse, reservedClientName,
                   pass, inits, prevOut, prevInits, prevImports>>

\* The host runs the pass again on the same file, with or without calling
\* Init again.
Rerun ==
    /\ pc = "done"
    /\ pass < MaxPasses
    /\ pass' = pass + 1
    /\ prevOut' = out
    /\ prevInits' = inits
    /\ prevImports' = imports
    /\ out' = <<>>
    /\ imports' = <<>>
    /\ calls' = <<>>
    /\ si' = 0
    /\ mi' = 0
    /\ methodIndex' = 0
    /\ streamIndex' = 0
    /\ msgi' = 0
    /\ pc' \in {"new", "ready"}
    /\ UNCHANGED <<file, kettyPkg, contextPkg, pkgNamesInUse, reservedClientName,
                   inits>>

Pass ==
    \/ KettyInit
    \/ Generate
    \/ generateService
    \/ generateServiceMethod
    \/ generateServiceReturn
    \/ ServicesDone
    \/ SkipMessage
    \/ OptionsPanic
    \/ OptionMethods
    \/ GenerateReturn
    \/ GenerateImports

Next == Pass

NextTwice == Pass \/ Rerun

\* Files of any services, with a few message lists; the reserved names as
\* the source has them (none).
Init == InitOf(ServiceLists(MaxServices, MaxMethods), FewMessages, {{}})

Spec == Init /\ [][Next]_vars

\* Files of any messages, with a few service lists.
InitOpt == InitOf(SmallServices, MessageLists(MaxMessages), {{}})

SpecOpt == InitOpt /\ [][Next]_vars

\* The reserved-name map filled in several ways.
ReservedSets == {{}, {"Say"}, {"SayHi", "XWatch"}}

InitReserved ==
    InitOf(ServiceLists(1, MaxMethods), FewMessages, ReservedSets)

SpecReserved == InitReserved /\ [][Next]_vars

\* The pass run more than once on a file.
InitTwice == InitOf(SmallServices, SmallMessages, {{}})

SpecTwice == InitTwice /\ [][NextTwice]_vars

---------------------------------------------------------------------------
(* What the properties read from the state. *)

\* The Go names of the declared names, computed once.
DeclaredNames ==
    { MethodNames[i] : i \in DOMAIN MethodNames }
        \cup { ServiceNames[i] : i \in DOMAIN ServiceNames }
GoNameOf == [n \in DeclaredNames |-> CamelCase(n)]
GoName(n) == GoNameOf[n]
GoTypeOf ==
    [t \in {".demo.EchoRequest", ".demo.echo_response"} |-> typeName(t)]
GoType(t) == GoTypeOf[t]

\* The positions of the log that hold a call of op.
CallsOf(op) == { k \in 1..Len(calls) : calls[k].op = op }

MethodCalls == CallsOf("generateClientMethod")
ServiceCalls == CallsOf("generateService")
OptionCalls == CallsOf("generateOptionMethods")

\* The declared method a logged generateClientMethod call is about.
DeclaredService(c) == file.services[c.service]
DeclaredMethod(c) == file.services[c.service].methods[c.position]

BothFlagsFalse(m) == m.clientStreaming = FALSE /\ m.serverStreaming = FALSE

\* How many of the first n methods of a service are unary / streaming.
UnaryBefore(service, n) ==
    Cardinality({ j \in 1..n : BothFlagsFalse(service.methods[j]) })
StreamingBefore(service, n) ==
    Cardinality({ j \in 1..n : ~BothFlagsFalse(service.methods[j]) })

Lines(from, to) == { out[k] : k \in from..to }

HasPrefix(line, prefix) ==
    Len(line) >= Len(prefix) /\ SubSeq(line, 1, Len(prefix)) = prefix

---------------------------------------------------------------------------
(* C1 *)

\* C1: every unary method is given the slot Methods[i], i the number of unary
\* methods declared before it in its service, every streaming method the slot
\* Streams[j], j the number of streaming methods declared before it; and after
\* every turn of the loop methodIndex + streamIndex is the number of methods
\* processed so far (methodIndex the unary ones, streamIndex the streaming ones).
C1_StablePartition ==
    /\ \A k \in MethodCalls :
          LET c == calls[k]
              service == DeclaredService(c)
              descVar == "_" \o GoName(service.name) \o "_serviceDesc"
          IN  c.descExpr =
                 IF BothFlagsFalse(DeclaredMethod(c))
                 THEN "&" \o descVar \o ".Methods["
                          \o Itoa(UnaryBefore(service, c.position - 1)) \o "]"
                 ELSE "&" \o descVar \o ".Streams["
                          \o Itoa(StreamingBefore(service, c.position - 1)) \o "]"
    /\ pc = "methods" =>
          /\ methodIndex + streamIndex = mi - 1
          /\ methodIndex = UnaryBefore(file.services[si], mi - 1)
          /\ streamIndex = StreamingBefore(file.services[si], mi - 1)

\* A unary method declared third, after a unary and a streaming one, is given
\* Methods[1].
C1_Witness ==
    \E k \in MethodCalls :
        /\ calls[k].position = 3
        /\ BothFlagsFalse(DeclaredMethod(calls[k]))
        /\ ~BothFlagsFalse(DeclaredService(calls[k]).methods[2])
        /\ calls[k].descExpr = "&_Echo_serviceDesc.Methods[1]"
        /\ pc = "methods" /\ mi = 4 /\ methodIndex = 2 /\ streamIndex = 1

---------------------------------------------------------------------------
(* C10 *)

\* C10: in every service the first unary method refers to Methods[0] and the
\* first streaming method to Streams[0] of that service's own descriptor
\* variable, whatever the services generated before it held; generateService
\* enters its loop with both counters at 0.
C10_CountersPerService ==
    /\ \A k \in MethodCalls :
          LET c == calls[k]
              service == DeclaredService(c)
              descVar == "_" \o GoName(service.name) \o "_serviceDesc"
          IN  /\ (BothFlagsFalse(DeclaredMethod(c))
                    /\ UnaryBefore(service, c.position - 1) = 0)
                 => c.descExpr = "&" \o descVar \o ".Methods[0]"
              /\ (~BothFlagsFalse(DeclaredMethod(c))
                    /\ StreamingBefore(service, c.position - 1) = 0)
                 => c.descExpr = "&" \o descVar \o ".Streams[0]"
    /\ (pc = "methods" /\ mi = 1) => (methodIndex = 0 /\ streamIndex = 0)

\* The second service's first unary and first streaming method get slot 0
\* after a first service that held a unary and a streaming method.
C10_Witness ==
    /\ \E k \in MethodCalls :
          calls[k].service = 1 /\ BothFlagsFalse(DeclaredMethod(calls[k]))
    /\ \E k \in MethodCalls :
          calls[k].service = 1 /\ ~BothFlagsFalse(DeclaredMethod(calls[k]))
    /\ \E k \in MethodCalls :
          /\ calls[k].service = 2
          /\ calls[k].descExpr = "&_ChatRoom_serviceDesc.Methods[0]"

---------------------------------------------------------------------------
(* C4, C5, C6 *)

\* The text before the signature on the first line of a generated method.
Receiver(c) ==
    "func (this *Ketty" \o GoName(DeclaredService(c).name) \o "Client) "

\* C4: the signature takes the context first, has the request parameter
\* "in *InputType" exactly when the method is not client-streaming, and returns
\* *OutputType when both flags are false and {ServiceName}_{MethodName}Client
\* when either flag is set.
C4_Signature ==
    \A k \in MethodCalls :
        LET c == calls[k]
            m == DeclaredMethod(c)
            request == IF m.clientStreaming THEN ""
                       ELSE ", in *" \o GoType(m.inputType)
            response == IF BothFlagsFalse(m)
                        THEN "*" \o GoType(m.outputType)
                        ELSE GoName(DeclaredService(c).name) \o "_"
                                 \o GoName(m.name) \o "Client"
        IN  out[c.from] =
                Receiver(c) \o GoName(m.name) \o "(ctx context.Context"
                    \o request \o ") (" \o response \o ", error){"

\* A client-streaming method of the second service and a server-streaming
\* method have been given their signatures.
C4_Witness ==
    /\ \E k \in MethodCalls :
          /\ DeclaredMethod(calls[k]).clientStreaming
          /\ ~DeclaredMethod(calls[k]).serverStreaming
          /\ out[calls[k].from] =
                "func (this *KettyChatRoomClient) Say(ctx context.Context) "
                    \o "(ChatRoom_SayClient, error){"
    /\ \E k \in MethodCalls :
          /\ ~DeclaredMethod(calls[k]).clientStreaming
          /\ DeclaredMethod(calls[k]).serverStreaming
          /\ out[calls[k].from] =
                "func (this *KettyEchoClient) SayHi(ctx context.Context, "
                    \o "in *EchoRequest) (Echo_SayHiClient, error){"

\* The lines of the unary body: allocate, invoke, fail, return.
UnaryBody(c) ==
    <<"out := new(" \o GoType(DeclaredMethod(c).outputType) \o ")",
      "err := this.client.Invoke(ctx, "
          \o GoName(DeclaredService(c).name) \o "Handle, \""
          \o GoName(DeclaredMethod(c).name) \o "\", in, out)",
      "if err != nil { return nil, err }",
      "return out, nil">>

\* C5: for a method with either streaming flag set none of the lines of the
\* unary body is printed: no allocation of the output, no Invoke reading the
\* request value "in", no "return out, nil".
C5_NoUnaryBodyForStreaming ==
    \A k \in MethodCalls :
        LET c == calls[k] IN
        ~BothFlagsFalse(DeclaredMethod(c)) =>
            \A n \in 1..Len(UnaryBody(c)) :
                UnaryBody(c)[n] \notin Lines(c.from + 1, c.to)

\* C6: the body of a unary method is, in this order, the allocation of the
\* output, the Invoke through the service's own handle under the key of the
\* camel-cased method name, the return of (nil, err) on failure, and the return
\* of the output; for service Echo with the unary method Say the output holds
\* EchoHandleT, EchoHandle, KettyEchoClient, NewKettyEchoClient and the method
\* Say invoking through EchoHandle under the key "Say".
C6_UnaryBody ==
    /\ \A k \in MethodCalls :
          LET c == calls[k] IN
          BothFlagsFalse(DeclaredMethod(c)) =>
              SubSeq(out, c.from + 1, c.to) = UnaryBody(c) \o <<"}", "">>
    /\ (/\ pc = "done"
        /\ Len(file.services) >= 1
        /\ file.services[1].name = "Echo"
        /\ Len(file.services[1].methods) >= 1
        /\ file.services[1].methods[1].name = "Say"
        /\ BothFlagsFalse(file.services[1].methods[1]))
       => {"type EchoHandleT struct {",
           "var EchoHandle = &EchoHandleT{ desc : &_Echo_serviceDesc }",
           "type KettyEchoClient struct {",
           "func NewKettyEchoClient (client ketty.Client) *KettyEchoClient {",
           "func (this *KettyEchoClient) Say(ctx context.Context, "
               \o "in *EchoRequest) (*EchoResponse, error){",
           "err := this.client.Invoke(ctx, EchoHandle, \"Say\", in, out)"}
             \subseteq Lines(1, Len(out))

\* The pass is over for a file whose service Echo declares the unary methods
\* Say and say_hi.
C6_Witness ==
    /\ pc = "done"
    /\ Len(file.services) >= 1
    /\ file.services[1].name = "Echo"
    /\ \E k \in MethodCalls :
          /\ calls[k].service = 1
          /\ DeclaredMethod(calls[k]).name = "Say"
          /\ BothFlagsFalse(DeclaredMethod(calls[k]))
    /\ \E k \in MethodCalls :
          /\ DeclaredMethod(calls[k]).name = "say_hi"
          /\ BothFlagsFalse(DeclaredMethod(calls[k]))
          /\ out[calls[k].from + 2] =
                "err := this.client.Invoke(ctx, EchoHandle, \"SayHi\", in, out)"

---------------------------------------------------------------------------
(* C2, C3 *)

\* What the resolver is to return for one extension: the stored value when it
\* is fetched and is a present value of the expected type T, else the zero.
ResolvedBool(stored) == IF stored.kind = "*bool" THEN stored.b ELSE FALSE
ResolvedString(stored) == IF stored.kind = "*string" THEN stored.s ELSE ""

\* C2: getKettyOptions never raises, and each of the three fields is the stored
\* value when that is fetched with the expected type and the zero value when
\* the extension is unset or stored under another type, independently of the
\* other two.
C2_TotalResolver ==
    /\ pc # "panic"
    /\ \A k \in OptionCalls :
          LET c == calls[k]
              o == file.messages[c.position].options
          IN  /\ c.opts.isUseKettyHttpExtend = ResolvedBool(o.useKettyHttpExtend)
              /\ c.opts.transport = ResolvedString(o.transport)
              /\ c.opts.marshal = ResolvedString(o.marshal)

MarkerLines(name) ==
    <<"func (*" \o name \o ") KettyHttpExtendMessage() {}", "">>

AccessorLines(name, accessor, value) ==
    <<"func (*" \o name \o ") " \o accessor \o "() string {",
      "return \"" \o value \o "\"", "}", "">>

\* C3: generateOptionMethods appends exactly the emissions of the fields that
\* are true or non-empty, the http-extend marker first, then the marshal
\* accessor, then the transport accessor; nothing for a record of three zero
\* values, and the transport accessor alone, returning "http", for transport =
\* "http", marshal = "", useHttpExtend = false.
C3_OptionMethods ==
    \A k \in OptionCalls :
        LET c == calls[k]
            name == file.messages[c.position].name
            printed == SubSeq(out, c.from, c.to)
        IN  /\ printed =
                  (IF c.opts.isUseKettyHttpExtend THEN MarkerLines(name) ELSE <<>>)
                  \o (IF c.opts.marshal # ""
                      THEN AccessorLines(name, "KettyMarshal", c.opts.marshal)
                      ELSE <<>>)
                  \o (IF c.opts.transport # ""
                      THEN AccessorLines(name, "KettyTransport", c.opts.transport)
                      ELSE <<>>)
            /\ (~c.opts.isUseKettyHttpExtend /\ c.opts.marshal = ""
                    /\ c.opts.transport = "")
               => printed = <<>>
            /\ (~c.opts.isUseKettyHttpExtend /\ c.opts.marshal = ""
                    /\ c.opts.transport = "http")
               => printed = <<"func (*" \o name \o ") KettyTransport() string {",
                              "return \"http\"", "}", "">>

\* A message with all three options set has been printed, marker first and
\* transport last.
C3_Witness ==
    \E k \in OptionCalls :
        /\ calls[k].opts =
              [isUseKettyHttpExtend |-> TRUE, transport |-> "http",
               marshal |-> "json"]
        /\ calls[k].to = calls[k].from + 9
        /\ out[calls[k].from] = "func (*EchoRequest) KettyHttpExtendMessage() {}"
        /\ out[calls[k].from + 2] = "func (*EchoRequest) KettyMarshal() string {"
        /\ out[calls[k].from + 6] = "func (*EchoRequest) KettyTransport() string {"

---------------------------------------------------------------------------
(* C7, C8, C9 *)

Annotated == { p \in 1..Len(file.messages) : file.messages[p].options.present }

\* C8: when Generate has returned it has called generateService once per
\* declared service, in declaration order, and then generateOptionMethods once
\* per message carrying an option set, and never for a message without one.
C8_OncePerServiceAndMessage ==
    pc \in {"imports", "done"} =>
        /\ Cardinality(ServiceCalls) = Len(file.services)
        /\ \A i \in 1..Len(file.services) :
              \E k \in ServiceCalls :
                  /\ calls[k].index = i - 1
                  /\ calls[k].service = file.services[i].name
        /\ \A k1, k2 \in ServiceCalls :
              k1 < k2 => calls[k1].index < calls[k2].index
        /\ Cardinality(OptionCalls) = Cardinality(Annotated)
        /\ \A p \in Annotated : \E k \in OptionCalls : calls[k].position = p
        /\ \A k \in OptionCalls : calls[k].position \in Annotated
        /\ \A k1, k2 \in OptionCalls :
              k1 < k2 => calls[k1].position < calls[k2].position
        /\ \A k1 \in ServiceCalls \cup MethodCalls, k2 \in OptionCalls : k1 < k2

\* C9: the client method name is the camel-cased name, with "_" appended
\* exactly when the camel-cased name is in the reserved-name set.
C9_ClientMethodName ==
    \A k \in MethodCalls :
        LET c == calls[k]
            camel == GoName(DeclaredMethod(c).name)
        IN  HasPrefix(out[c.from],
                Receiver(c)
                    \o (IF camel \in reservedClientName THEN camel \o "_"
                        ELSE camel)
                    \o "(ctx ")

\* With SayHi reserved, say_hi has been named SayHi_ and Say has been named Say.
C9_Witness ==
    /\ reservedClientName = {"SayHi", "XWatch"}
    /\ \E k \in MethodCalls :
          /\ DeclaredMethod(calls[k]).name = "say_hi"
          /\ HasPrefix(out[calls[k].from], "func (this *KettyEchoClient) SayHi_(ctx ")
    /\ \E k \in MethodCalls :
          /\ DeclaredMethod(calls[k]).name = "Say"
          /\ HasPrefix(out[calls[k].from], "func (this *KettyEchoClient) Say(ctx ")

====
